---- MODULE Spec2Model ----
(***************************************************************************)
(* Model of src/math/extrapolate.py: the table builder (get_subseq,        *)
(* get_subseqs), the predictor (next_item) and the solver (solve_seq).     *)
(*                                                                         *)
(* A schedule ("ops" / "invops" in the source) is either one function or   *)
(* an iterable of functions.  It is modelled as a record                   *)
(*   [iterable |-> BOOLEAN, items |-> sequence of function names]          *)
(* where a single function f is [iterable |-> FALSE, items |-> <<f>>].     *)
(* Python indices are 0-based; items[i+1] is Python's ops[i].              *)
(*                                                                         *)
(* A call returns a record whose field exc is "None" when the call         *)
(* returned normally and the name of the Python exception otherwise.       *)
(***************************************************************************)
EXTENDS Integers, Sequences, FiniteSets

\* ------------------------------------------------------------------ bounds
MaxLen == 3
MaxVal == 2

\* range(2) of the demo loop: the sequence is extended at most twice
MaxAppend == 2

Vals == (0 - MaxVal)..MaxVal
NonZero == Vals \ {0}

RECURSIVE Pow(_, _)
Pow(r, n) == IF n = 0 THEN 1 ELSE r * Pow(r, n - 1)

BoxSeqs == UNION {[1..n -> Vals] : n \in 0..MaxLen}
GeoSeqs == {[i \in 1..n |-> a * Pow(r, i - 1)] : a \in NonZero, r \in NonZero, n \in 2..MaxLen}
Inputs == BoxSeqs \cup GeoSeqs

\* ------------------------------------------------------- the five lambdas
sub(a, b) == b - a
add_mut(a, b) == b - a
add(a, b) == b + a
mul_mut(a, b) == b + a
mul(a, b) == b * a
\* Python's // on integers is floor division; the caller excludes a = 0
div(a, b) == IF a > 0 THEN b \div a ELSE (0 - b) \div (0 - a)
flip(a, b) == IF a # 0 THEN 0 - a ELSE 0 - b

Ok(v) == [exc |-> "None", v |-> v]
Raise(e) == [exc |-> e, v |-> 0]

\* Calling the function named f on (a, b)
Apply(f, a, b) ==
  CASE f = "sub" -> Ok(sub(a, b))
    [] f = "add" -> Ok(add(a, b))
    [] f = "div" -> IF a = 0 THEN Raise("ZeroDivisionError") ELSE Ok(div(a, b))
    [] f = "mul" -> Ok(mul(a, b))
    [] f = "flip" -> Ok(flip(a, b))

\* The inverse each operation is paired with by the callers
Inverse(f) ==
  CASE f = "sub" -> "add"
    [] f = "div" -> "mul"
    [] f = "flip" -> "flip"

Palette == {"sub", "div", "flip"}

Single(f) == [iterable |-> FALSE, items |-> <<f>>]
List(fs) == [iterable |-> TRUE, items |-> fs]
PairedInverse(o) == [iterable |-> o.iterable, items |-> [i \in 1..Len(o.items) |-> Inverse(o.items[i])]]

Schedules ==
  {Single(f) : f \in Palette} \cup
  {List(fs) : fs \in UNION {[1..n -> Palette] : n \in 0..(MaxLen - 1)}}

\* ------------------------------------------------------------ is_constant
is_constant_mut(s) == \A i \in 2..(Len(s) - 1) : s[1] = s[i + 1]
is_constant(s) == \A i \in 1..(Len(s) - 1) : s[1] = s[i + 1]

\* ------------------------------------------------------------- get_subseq
\* The list comprehension calls op left to right and stops at the first
\* call that raises; calls counts the calls made.
Fails(s, op) == {i \in 1..(Len(s) - 1) : Apply(op, s[i], s[i + 1]).exc # "None"}

FirstFail(s, op) == CHOOSE i \in Fails(s, op) : \A j \in Fails(s, op) : i <= j

get_subseq_mut(s, op) ==
  IF Fails(s, op) = {}
  THEN [exc |-> "None",
        row |-> [i \in 1..(Len(s) - 2) |-> Apply(op, s[i + 1], s[i + 2]).v],
        calls |-> IF Len(s) > 1 THEN Len(s) - 2 ELSE 0]
  ELSE [exc |-> Apply(op, s[FirstFail(s, op)], s[FirstFail(s, op) + 1]).exc,
        row |-> <<>>,
        calls |-> FirstFail(s, op)]

get_subseq(s, op) ==
  IF Fails(s, op) = {}
  THEN [exc |-> "None",
        row |-> [i \in 1..(Len(s) - 1) |-> Apply(op, s[i], s[i + 1]).v],
        calls |-> IF Len(s) > 0 THEN Len(s) - 1 ELSE 0]
  ELSE [exc |-> Apply(op, s[FirstFail(s, op)], s[FirstFail(s, op) + 1]).exc,
        row |-> <<>>,
        calls |-> FirstFail(s, op)]

\* ------------------------------------------------------------ get_subseqs
\* "if not isinstance(ops, Iterable): ops = [ops for _ in range(len(s)-1)]"
Expand_mut(o, s) ==
  IF o.iterable /\ Len(o.items) = 0 THEN o.items
  ELSE [i \in 1..(IF Len(s) > 0 THEN Len(s) - 1 ELSE 0) |->
          o.items[IF i < Len(o.items) THEN i ELSE Len(o.items)]]

Expand(o, s) ==
  IF o.iterable THEN o.items
  ELSE [i \in 1..(IF Len(s) > 0 THEN Len(s) - 1 ELSE 0) |-> o.items[1]]

too_short_mut(s) == Len(s) < 1
too_short(s) == Len(s) < 2

Table(exc, rows, calls, idx) == [exc |-> exc, rows |-> rows, calls |-> calls, idx |-> idx]

\* the while loop; i is Python's i, idx the set of schedule indices read
RECURSIVE subseqs_loop(_, _, _, _, _)
subseqs_loop(subseqs, ops, i, calls, idx) ==
  LET last == subseqs[Len(subseqs)] IN
  IF ~is_constant(last) /\ Len(last) > 1
  THEN IF i + 1 > Len(ops)
       THEN Table("IndexError", <<>>, calls, idx \cup {i})
       ELSE LET r == get_subseq(last, ops[i + 1]) IN
            IF r.exc # "None"
            THEN Table(r.exc, <<>>, calls + r.calls, idx \cup {i})
            ELSE subseqs_loop(Append(subseqs, r.row), ops, i + 1, calls + r.calls, idx \cup {i})
  ELSE Table("None", subseqs, calls, idx)

get_subseqs(s, o) ==
  IF too_short(s) THEN Table("None", <<>>, 0, {})
  ELSE LET ops == Expand(o, s) IN
       IF Len(ops) = 0 THEN Table("IndexError", <<>>, 0, {0})
       ELSE LET r == get_subseq(s, ops[1]) IN
            IF r.exc # "None" THEN Table(r.exc, <<>>, r.calls, {0})
            ELSE subseqs_loop(<<r.row>>, ops, 1, r.calls, {0})

\* -------------------------------------------------------------- next_item
\* the loop "for i in reversed(range(1, len(ss)))"; i is Python's i
RECURSIVE chain(_, _, _, _)
chain(ss, invops, i, r) ==
  IF i < 1 THEN Ok(r)
  ELSE IF i + 1 > Len(invops) THEN Raise("IndexError")
  ELSE LET x == Apply(invops[i + 1], ss[i][Len(ss[i])], r) IN
       IF x.exc # "None" THEN x ELSE chain(ss, invops, i - 1, x.v)

next_item(s, o, invo) ==
  LET t == get_subseqs(s, o) IN
  IF t.exc # "None" THEN Raise(t.exc)
  ELSE LET ss == t.rows IN
       IF Len(ss) = 0 THEN Raise("IndexError")
       ELSE IF Len(ss[Len(ss)]) = 0 THEN Raise("IndexError")
       ELSE LET invops == Expand(invo, s)
                acc == chain(ss, invops, Len(ss) - 1, ss[Len(ss)][Len(ss[Len(ss)])])
            IN IF acc.exc # "None" THEN acc
               ELSE IF Len(invops) = 0 THEN Raise("IndexError")
               ELSE Apply(invops[1], s[Len(s)], acc.v)

\* -------------------------------------------------------------- solve_seq
\* itertools.product(pal, repeat=m): tuples in lexicographic order, the
\* last position varying fastest
RECURSIVE product(_, _)
product(pal, m) ==
  IF m = 0 THEN << <<>> >>
  ELSE LET rest == product(pal, m - 1)
           L == Len(rest)
       IN [j \in 1..(Len(pal) * L) |-> <<pal[((j - 1) \div L) + 1]>> \o rest[((j - 1) % L) + 1]]

allops_mut(m) == product(<<"div", "flip">>, m)
allops(m) == product(<<"sub", "div", "flip">>, m)
allinvs_mut(m) == product(<<"mul", "add", "flip">>, m)
allinvs(m) == product(<<"add", "mul", "flip">>, m)

\* zip stops at the shorter of its arguments
ziplen(m) == IF Len(allops(m)) < Len(allinvs(m)) THEN Len(allops(m)) ELSE Len(allinvs(m))

\* "except ZeroDivisionError"
catches_mut(e) == FALSE
catches(e) == e = "ZeroDivisionError"

\* ----------------------------------------------------------------- state
VARIABLES s, ops, invops, pc, tbl, item, k, solutions, skipped, err, appended

vars == <<s, ops, invops, pc, tbl, item, k, solutions, skipped, err, appended>>

Init ==
  /\ s \in Inputs
  /\ ops = List(<<>>)
  /\ invops = List(<<>>)
  /\ pc = "start"
  /\ tbl = Table("None", <<>>, 0, {})
  /\ item = Ok(0)
  /\ k = 0
  /\ solutions = {}
  /\ skipped = 0
  /\ err = "None"
  /\ appended = 0

\* a call of get_subseqs(s, ops)
GetSubseqs ==
  /\ pc = "start"
  /\ \E o \in Schedules :
       /\ ops' = o
       /\ tbl' = get_subseqs(s, o)
  /\ pc' = "built"
  /\ UNCHANGED <<s, invops, item, k, solutions, skipped, err, appended>>

\* a call of next_item(s, ops, invops) with the paired inverses
NextItem ==
  /\ pc = "start"
  /\ \E o \in Schedules :
       /\ ops' = o
       /\ invops' = PairedInverse(o)
       /\ item' = next_item(s, o, PairedInverse(o))
  /\ pc' = "predicted"
  /\ UNCHANGED <<s, tbl, k, solutions, skipped, err, appended>>

\* the demo loop body: seq.append(next_item(...)); subseq = get_subseqs(...)
Extend ==
  /\ pc = "predicted"
  /\ item.exc = "None"
  /\ appended < MaxAppend
  /\ s' = Append(s, item.v)
  /\ tbl' = get_subseqs(Append(s, item.v), ops)
  /\ appended' = appended + 1
  /\ pc' = "extended"
  /\ UNCHANGED <<ops, invops, item, k, solutions, skipped, err>>

\* the next round of the demo loop
Again ==
  /\ pc = "extended"
  /\ tbl.exc = "None"
  /\ appended < MaxAppend
  /\ item' = next_item(s, ops, invops)
  /\ pc' = "predicted"
  /\ UNCHANGED <<s, ops, invops, tbl, k, solutions, skipped, err, appended>>

\* solve_seq up to "solutions = set()"
SolveStart ==
  /\ pc = "start"
  /\ IF Len(s) = 0
     THEN /\ pc' = "raised"
          /\ err' = "ValueError"
     ELSE /\ pc' = "solving"
          /\ err' = "None"
  /\ solutions' = {}
  /\ k' = 0
  /\ UNCHANGED <<s, ops, invops, tbl, item, skipped, appended>>

\* one iteration of "for ops, invs in zip(allops, allinvs)"
SolveStep ==
  /\ pc = "solving"
  /\ k < ziplen(Len(s) - 1)
  /\ LET o == List(allops(Len(s) - 1)[k + 1])
         i == List(allinvs(Len(s) - 1)[k + 1])
         r == next_item(s, o, i)
     IN /\ ops' = o
        /\ invops' = i
        /\ item' = r
        /\ IF r.exc = "None"
           THEN /\ solutions' = solutions \cup {r.v}
                /\ UNCHANGED <<skipped, err>>
                /\ pc' = "solving"
           ELSE IF catches(r.exc)
           THEN /\ skipped' = skipped + 1
                /\ UNCHANGED <<solutions, err>>
                /\ pc' = "solving"
           ELSE /\ err' = r.exc
                /\ pc' = "raised"
                /\ UNCHANGED <<solutions, skipped>>
  /\ k' = k + 1
  /\ UNCHANGED <<s, tbl, appended>>

\* "return solutions"
SolveReturn ==
  /\ pc = "solving"
  /\ k >= ziplen(Len(s) - 1)
  /\ pc' = "solved"
  /\ UNCHANGED <<s, ops, invops, tbl, item, k, solutions, skipped, err, appended>>

Next ==
  \/ GetSubseqs
  \/ NextItem
  \/ Extend
  \/ Again
  \/ SolveStart
  \/ SolveStep
  \/ SolveReturn

Spec == Init /\ [][Next]_vars

\* =================================================================
\* Properties
\* =================================================================

\* every schedule of the palette for the current sequence, as a list
AllSchedules == {List(f) : f \in [1..(Len(s) - 1) -> Palette]}

\* the schedules whose prediction, with the paired inverses, returns
Succeeding == {o \in AllSchedules : next_item(s, o, PairedInverse(o)).exc = "None"}

\* the schedules whose prediction, with the paired inverses, divides by zero
Dividing == {o \in AllSchedules : next_item(s, o, PairedInverse(o)).exc = "ZeroDivisionError"}

Prior == SubSeq(s, 1, Len(s) - 1)
PriorTable == get_subseqs(Prior, ops)

\* the last element of the sequence or row feeding each divide level is non-zero
DivideFed ==
  \A j \in 1..Len(PriorTable.rows) :
    Expand(ops, Prior)[j] = "div" =>
      IF j = 1 THEN Prior[Len(Prior)] # 0
      ELSE PriorTable.rows[j - 1][Len(PriorTable.rows[j - 1])] # 0

SubDivOnly == \A j \in 1..Len(ops.items) : ops.items[j] \in {"sub", "div"}

\* C2: round trip.  After a successful prediction under a schedule of
\* subtract/divide with the paired inverses, where every divide level is fed
\* by a row whose last element is non-zero, the table of the extended
\* sequence has as many rows as before, each row is the old row with one
\* element appended, and the final row is constant.
RoundTrip ==
  (pc = "extended" /\ SubDivOnly /\ DivideFed) =>
    /\ tbl.exc = "None"
    /\ PriorTable.exc = "None"
    /\ Len(tbl.rows) = Len(PriorTable.rows)
    /\ \A j \in 1..Len(tbl.rows) :
         /\ Len(tbl.rows[j]) = Len(PriorTable.rows[j]) + 1
         /\ SubSeq(tbl.rows[j], 1, Len(PriorTable.rows[j])) = PriorTable.rows[j]
    /\ Len(tbl.rows) >= 1
    /\ \A x \in 1..Len(tbl.rows[Len(tbl.rows)]) :
         tbl.rows[Len(tbl.rows)][x] = tbl.rows[Len(tbl.rows)][1]

RoundTripWitness ==
  /\ pc = "extended"
  /\ DivideFed
  /\ ops = List(<<"div", "sub">>)
  /\ Len(tbl.rows) = 2
  /\ tbl.rows[1][1] # tbl.rows[1][2]

\* C3: for a geometric sequence a*r^0 .. a*r^(n-1) with a # 0, r # 0 and
\* n >= 2, next_item with divide and multiply returns a*r^n.
Geometric ==
  (pc = "predicted" /\ ops = Single("div") /\ invops = Single("mul") /\ Len(s) >= 2) =>
    \A a \in NonZero, r \in NonZero :
      s = [i \in 1..Len(s) |-> a * Pow(r, i - 1)] => item = Ok(a * Pow(r, Len(s)))

GeometricWitness ==
  /\ pc = "predicted"
  /\ ops = Single("div")
  /\ Len(s) >= 3
  /\ \E a \in NonZero, r \in NonZero \ {1, 0 - 1} :
       /\ s = [i \in 1..Len(s) |-> a * Pow(r, i - 1)]
       /\ item = Ok(a * Pow(r, Len(s)))

\* C4: for a sequence of length >= 2 solve_seq never ends in an error: a
\* schedule that divides by zero is dropped without contributing a value,
\* the remaining schedules are still evaluated, and a set is returned.
SolveNeverRaises ==
  Len(s) >= 2 =>
    /\ pc # "raised"
    /\ err = "None"
    /\ (pc \in {"solving", "solved"} /\ k > 0 /\ item.exc # "None") => item.exc = "ZeroDivisionError"
    /\ pc \in {"solving", "solved"} => skipped <= k
    /\ pc = "solved" =>
         /\ k = Pow(3, Len(s) - 1)
         /\ skipped = Cardinality(Dividing)
         /\ \A v \in solutions : \E o \in Succeeding : next_item(s, o, PairedInverse(o)).v = v

SolveNeverRaisesWitness ==
  /\ pc = "solved"
  /\ Len(s) >= 2
  /\ skipped > 0
  /\ solutions # {}

\* C5: flip is its own inverse: flip(a, flip(a, b)) = b for all a and b
\* (here for all a, b of the value range and all adjacent elements of s).
FlipSelfInverse ==
  /\ \A a \in Vals, b \in Vals : flip(a, flip(a, b)) = b
  /\ \A i \in 1..(Len(s) - 1) : flip(s[i], flip(s[i], s[i + 1])) = s[i + 1]

\* C6: in a table built from a sequence of length n >= 2, row i (from 0) has
\* n-1-i elements, so every row is non-empty and there are between 1 and n-1
\* rows; a schedule of length n-1 is never indexed out of range.
RowLengths ==
  (pc \in {"built", "extended"} /\ Len(s) >= 2) =>
    /\ tbl.exc = "None" =>
         /\ Len(tbl.rows) >= 1
         /\ Len(tbl.rows) <= Len(s) - 1
         /\ \A j \in 1..Len(tbl.rows) : Len(tbl.rows[j]) = Len(s) - j
         /\ \A j \in 1..Len(tbl.rows) : Len(tbl.rows[j]) >= 1
    /\ (~ops.iterable \/ Len(ops.items) = Len(s) - 1) =>
         /\ tbl.exc # "IndexError"
         /\ tbl.idx \subseteq 0..(Len(s) - 2)

RowLengthsWitness ==
  /\ pc = "built"
  /\ Len(s) = 3
  /\ ops.iterable
  /\ Len(ops.items) = 2
  /\ tbl.exc = "None"
  /\ Len(tbl.rows) = 2
  /\ tbl.idx = {0, 1}

\* C7: get_subseqs on a sequence of fewer than two elements returns the
\* empty table for every schedule, the empty list included, without calling
\* an operation and without indexing the schedule.
ShortSequence ==
  (pc = "built" /\ Len(s) < 2) =>
    /\ tbl.exc = "None"
    /\ tbl.rows = <<>>
    /\ tbl.calls = 0
    /\ tbl.idx = {}

ShortSequenceWitness ==
  /\ pc = "built"
  /\ Len(s) = 1
  /\ ops = List(<<>>)
  /\ tbl.rows = <<>>

\* C8: the final row of a built table is constant or has one element, and
\* every row before it is non-constant and has at least two elements.
StopsAtFirstConstant ==
  (pc \in {"built", "extended"} /\ Len(s) >= 2 /\ tbl.exc = "None") =>
    /\ Len(tbl.rows) >= 1
    /\ \/ Len(tbl.rows[Len(tbl.rows)]) = 1
       \/ \A x, y \in 1..Len(tbl.rows[Len(tbl.rows)]) :
            tbl.rows[Len(tbl.rows)][x] = tbl.rows[Len(tbl.rows)][y]
    /\ \A j \in 1..(Len(tbl.rows) - 1) :
         /\ Len(tbl.rows[j]) >= 2
         /\ \E x, y \in 1..Len(tbl.rows[j]) : tbl.rows[j][x] # tbl.rows[j][y]

StopsAtFirstConstantWitness ==
  /\ pc \in {"built", "extended"}
  /\ tbl.exc = "None"
  /\ Len(tbl.rows) >= 2
  /\ Len(tbl.rows[Len(tbl.rows)]) >= 2

\* the short list padded with subtractions to the required length, and the
\* table it gives
Padded == List(ops.items \o [j \in 1..(Len(s) - 1 - Len(ops.items)) |-> "sub"])
FullTable == get_subseqs(s, Padded)
ShortList == pc = "built" /\ ops.iterable /\ Len(s) >= 2 /\ Len(ops.items) < Len(s) - 1
ReachesWithin == FullTable.exc = "None" /\ Len(FullTable.rows) <= Len(ops.items)

\* C9 as stated: a list of length L < len(s)-1 gives the full table when the
\* table reaches a constant or single-element row within its first L rows
\* and otherwise ends in an IndexError; L = 0 always fails.
ShortScheduleStated ==
  ShortList =>
    /\ ReachesWithin => (tbl.exc = "None" /\ tbl.rows = FullTable.rows)
    /\ ~ReachesWithin => (tbl.exc = "IndexError" /\ tbl.rows = <<>>)
    /\ Len(ops.items) = 0 => tbl.exc = "IndexError"

\* C9 amended: ... and otherwise ends in the ZeroDivisionError of an
\* operation that divides by zero while one of the first L rows is built or,
\* when no operation fails, in an IndexError at the access of entry L.
ShortSchedule ==
  ShortList =>
    /\ ReachesWithin => (tbl.exc = "None" /\ tbl.rows = FullTable.rows)
    /\ (~ReachesWithin /\ FullTable.exc = "ZeroDivisionError") =>
         (tbl.exc = "ZeroDivisionError" /\ tbl.rows = <<>>)
    /\ (~ReachesWithin /\ FullTable.exc = "None") =>
         (tbl.exc = "IndexError" /\ tbl.rows = <<>> /\ tbl.idx = 0..Len(ops.items))
    /\ FullTable.exc \in {"None", "ZeroDivisionError"}
    /\ Len(ops.items) = 0 => tbl.exc = "IndexError"

ShortScheduleWitness ==
  /\ ShortList
  /\ Len(ops.items) >= 1
  /\ ~ReachesWithin
  /\ tbl.exc = "IndexError"

\* C10: for a sequence of length >= 2 the set solve_seq returns is not empty
\* and contains next_item(s, subtract, add).
SolveHasDifference ==
  (pc = "solved" /\ Len(s) >= 2) =>
    /\ solutions # {}
    /\ next_item(s, Single("sub"), Single("add")).exc = "None"
    /\ next_item(s, Single("sub"), Single("add")).v \in solutions

SolveHasDifferenceWitness ==
  /\ pc = "solved"
  /\ Len(s) >= 3
  /\ skipped > 0
  /\ Cardinality(solutions) >= 2
  /\ next_item(s, Single("sub"), Single("add")).v \in solutions

====
